---------------------------- MODULE Spec2Model ----------------------------
(***************************************************************************)
(* Thermite: the destructible-polygon prototype.                           *)
(*                                                                         *)
(*   b2Separator   Validate, Separate, calcShapes and the geometric        *)
(*                 helpers (src/Thermite/b2Separator.cpp)                  *)
(*   Prototype     testPlaceBomb: the blast walk and the rebuild of the    *)
(*                 structure (src/unnamed/part_013)                        *)
(*   Bomb          generateBlastShape, setRadius (src/Thermite/core)       *)
(*                                                                         *)
(* Numbers.  The code computes on float/Number.  The model computes on     *)
(* exact rationals <<n, d>> (d > 0, lowest terms), so every comparison     *)
(* with the code's 0.1 tolerances is decided exactly.  A division by zero  *)
(* (IEEE: NaN or an infinity) is modelled by its observable outcome at the *)
(* one place the code can divide by zero (hitRay/hitSegment, see there).   *)
(***************************************************************************)
EXTENDS Integers, Sequences, FiniteSets, TLC

\* ------------------------------------------------------------------------
\* Rational arithmetic (the float arithmetic of the source, made exact)
\* ------------------------------------------------------------------------

Abs(k) == IF k < 0 THEN -k ELSE k

RECURSIVE GCD(_, _)
GCD(a, b) == IF b = 0 THEN a ELSE GCD(b, a % b)

\* the rational n/d in lowest terms with a positive denominator (d # 0)
Q(n, d) ==
    LET reduced(g) == IF d < 0 THEN <<(-n) \div g, (-d) \div g>>
                      ELSE <<n \div g, d \div g>>
    IN  reduced(GCD(Abs(n), Abs(d)))

I(k) == <<k, 1>>

QAdd(a, b) ==
    LET sum(g) == Q(a[1] * (b[2] \div g) + b[1] * (a[2] \div g),
                    (a[2] \div g) * b[2])
    IN  sum(GCD(a[2], b[2]))

QNeg(a) == <<-a[1], a[2]>>

QSub(a, b) == QAdd(a, QNeg(b))

QMul(a, b) ==
    LET product(g1, g2) ==
            <<(a[1] \div g1) * (b[1] \div g2), (a[2] \div g2) * (b[2] \div g1)>>
    IN  product(GCD(Abs(a[1]), b[2]), GCD(Abs(b[1]), a[2]))

\* a / b for b # 0
QDiv(a, b) ==
    IF b[1] > 0 THEN QMul(a, <<b[2], b[1]>>) ELSE QMul(a, <<-b[2], -b[1]>>)

QLt(a, b) == a[1] * b[2] < b[1] * a[2]

QLe(a, b) == a[1] * b[2] <= b[1] * a[2]

QIsZero(a) == a[1] = 0

\* the tolerance 0.1 of isOnSegment, pointsMatch and isOnLine
Tenth == <<1, 10>>

\* (int) x: the C++ conversion of a float to int truncates toward zero
Trunc(a) == IF a[1] >= 0 THEN a[1] \div a[2] ELSE -((-a[1]) \div a[2])

\* e, with x evaluated first.  TLC evaluates the arguments of an operator
\* on demand; a loop written as a recursive operator evaluates its
\* accumulator x at each iteration instead of as one nested expression at
\* the end.
Then(x, e) == IF x = x THEN e ELSE e

\* a point with integer coordinates, as a b2Vec2 of rationals
P(x, y) == <<I(x), I(y)>>

\* vec->at(i) for a 0-based index
At(vec, i) == vec[i + 1]

\* ------------------------------------------------------------------------
\* b2Separator: the geometric helpers
\* ------------------------------------------------------------------------

\* det with the two sums exchanged (the sign of the orientation flipped)
detFlipped(x1, y1, x2, y2, x3, y3) ==
    QSub(QAdd(QAdd(QMul(y1, x2), QMul(y2, x3)), QMul(y3, x1)),
         QAdd(QAdd(QMul(x1, y2), QMul(x2, y3)), QMul(x3, y1)))

det(x1, y1, x2, y2, x3, y3) ==
    QSub(QAdd(QAdd(QMul(x1, y2), QMul(x2, y3)), QMul(x3, y1)),
         QAdd(QAdd(QMul(y1, x2), QMul(y2, x3)), QMul(y3, x1)))

\* |a - b|
QDist(a, b) == IF QLt(a, b) THEN QSub(b, a) ELSE QSub(a, b)

isOnLine(px, py, x1, y1, x2, y2) ==
    IF QLt(Tenth, QSub(x2, x1)) \/ QLt(Tenth, QSub(x1, x2))
    THEN LET possibleY(a) == QAdd(QMul(a, QSub(px, x1)), y1)
         IN  QLt(QDist(py, possibleY(QDiv(QSub(y2, y1), QSub(x2, x1)))),
                 Tenth)
    ELSE QLt(QSub(px, x1), Tenth) \/ QLt(QSub(x1, px), Tenth)

isOnSegment(px, py, x1, y1, x2, y2) ==
    LET b1 == \/ QLe(px, QAdd(x1, Tenth)) /\ QLe(QSub(x2, Tenth), px)
              \/ QLe(QSub(x1, Tenth), px) /\ QLe(px, QAdd(x2, Tenth))
        b2 == \/ QLe(py, QAdd(y1, Tenth)) /\ QLe(QSub(y2, Tenth), py)
              \/ QLe(QSub(y1, Tenth), py) /\ QLe(py, QAdd(y2, Tenth))
    IN  b1 /\ b2 /\ isOnLine(px, py, x1, y1, x2, y2)

pointsMatch(x1, y1, x2, y2) ==
    QLt(QDist(x1, x2), Tenth) /\ QLt(QDist(y1, y2), Tenth)

\* the null reference returned by hitRay and hitSegment
NULL == <<>>

\* The point where the lines (x1,y1)-(x2,y2) and (x3,y3)-(x4,y4) meet.  For
\* parallel lines t7 = 0 and the code divides by zero: a is NaN or an
\* infinity, so px (and py) is NaN or an infinity, every comparison of
\* isOnSegment(px, py, x3, y3, x4, y4) with it is false, and the caller
\* returns null.  lineHit is NULL exactly in that case.
lineHit(x1, y1, x2, y2, x3, y3, x4, y4) ==
    LET hit(t1, t2, t3, t4, t5, t6) ==
            LET at(a) == <<QAdd(x1, QMul(a, t3)), QAdd(y1, QMul(a, t4))>>
                solve(t7) ==
                    IF QIsZero(t7) THEN NULL
                    ELSE at(QDiv(QSub(QMul(t5, t2), QMul(t6, t1)), t7))
            IN  solve(QSub(QMul(t4, t5), QMul(t3, t6)))
    IN  hit(QSub(x3, x1), QSub(y3, y1), QSub(x2, x1), QSub(y2, y1),
            QSub(x4, x3), QSub(y4, y3))

hitRay(x1, y1, x2, y2, x3, y3, x4, y4) ==
    LET check(p) ==
            IF p = NULL THEN NULL
            ELSE IF /\ isOnSegment(x2, y2, x1, y1, p[1], p[2])
                    /\ isOnSegment(p[1], p[2], x3, y3, x4, y4)
                 THEN p ELSE NULL
    IN  check(lineHit(x1, y1, x2, y2, x3, y3, x4, y4))

hitSegment(x1, y1, x2, y2, x3, y3, x4, y4) ==
    LET check(p) ==
            IF p = NULL THEN NULL
            ELSE IF /\ isOnSegment(p[1], p[2], x1, y1, x2, y2)
                    /\ isOnSegment(p[1], p[2], x3, y3, x4, y4)
                 THEN p ELSE NULL
    IN  check(lineHit(x1, y1, x2, y2, x3, y3, x4, y4))

\* ------------------------------------------------------------------------
\* b2Separator::Validate
\* ------------------------------------------------------------------------

\* the body of the loop over j for one j: the pair <<fl, ret>> after it
ValidateBody(v, n, i, j, fl, ret) ==
    LET i2 == IF i < n - 1 THEN i + 1 ELSE 0
        i3 == IF i > 0 THEN i - 1 ELSE n - 1
        pi == At(v, i)
        pi2 == At(v, i2)
        pj == At(v, j)
    IN  IF j # i /\ j # i2
        THEN LET d == Trunc(det(pi[1], pi[2], pi2[1], pi2[2], pj[1], pj[2]))
                 fl1 == IF ~fl THEN d > 0 ELSE fl
                 j2 == IF j < n - 1 THEN j + 1 ELSE 0
                 pj2 == At(v, j2)
                 ret1 == IF /\ j # i3
                            /\ hitSegment(pi[1], pi[2], pi2[1], pi2[2],
                                          pj[1], pj[2], pj2[1], pj2[2]) # NULL
                         THEN 1 ELSE ret
             IN  <<fl1, ret1>>
        ELSE <<fl, ret>>

\* for (j=j; j<n; j++) ...
RECURSIVE ValidateInner(_, _, _, _, _, _)
ValidateInner(v, n, i, j, fl, ret) ==
    LET rest(s) == Then(s, ValidateInner(v, n, i, j + 1, s[1], s[2]))
    IN  IF j >= n THEN <<fl, ret>>
        ELSE rest(ValidateBody(v, n, i, j, fl, ret))

\* the loop over i left as soon as the winding test of one edge has failed:
\* the intersection tests of the later edges are skipped
RECURSIVE ValidateOuterShort(_, _, _, _, _)
ValidateOuterShort(v, n, i, ret, fl2) ==
    LET rest(s) ==
            Then(s, ValidateOuterShort(v, n, i + 1, s[2],
                                       IF ~s[1] THEN TRUE ELSE fl2))
    IN  IF i >= n \/ fl2 THEN <<ret, fl2>>
        ELSE rest(ValidateInner(v, n, i, 0, FALSE, ret))

\* for (i=i; i<n; i++) ...: the pair <<ret, fl2>> at the end of the loops
RECURSIVE ValidateOuter(_, _, _, _, _)
ValidateOuter(v, n, i, ret, fl2) ==
    LET rest(s) ==
            Then(s, ValidateOuter(v, n, i + 1, s[2],
                                  IF ~s[1] THEN TRUE ELSE fl2))
    IN  IF i >= n THEN <<ret, fl2>>
        ELSE rest(ValidateInner(v, n, i, 0, FALSE, ret))

\* lines 70-79
Validate(verts) ==
    LET result(s) == IF s[2] THEN (IF s[1] = 1 THEN 3 ELSE 2) ELSE s[1]
    IN  result(ValidateOuter(verts, Len(verts), 0, 0, FALSE))

\* ------------------------------------------------------------------------
\* b2Separator::calcShapes
\* ------------------------------------------------------------------------

\* i+1 and i+2 modulo n, as calcShapes computes i2 and i3
Wrap1(i, n) == IF i < n - 1 THEN i + 1 ELSE i + 1 - n

Wrap2(i, n) == IF i < n - 2 THEN i + 2 ELSE i + 2 - n

\* d of the scan at index i: det(p1, p2, p3)
scanDet(vec, i) ==
    LET n == Len(vec)
        p1 == At(vec, i)
        p2 == At(vec, Wrap1(i, n))
        p3 == At(vec, Wrap2(i, n))
    IN  det(p1[1], p1[2], p2[1], p2[2], p3[1], p3[2])

\* the indices i of the scan with d < 0
reflexAt(vec, i) == QLt(scanDet(vec, i), I(0))

\* the least element of a set of indices, -1 for the empty set
LeastOr(R) == IF R = {} THEN -1 ELSE CHOOSE i \in R : \A k \in R : i <= k

\* the scan stopped before the indices whose i+1 or i+2 wraps around
firstReflexNoWrap(vec) ==
    LeastOr({i \in 0..(Len(vec) - 3) : reflexAt(vec, i)})

\* the first i with d < 0 (-1: the scan ends with isConvex still true)
firstReflex(vec) ==
    LeastOr({i \in 0..(Len(vec) - 1) : reflexAt(vec, i)})

\* the loop over j keeping the last of the nearest hits (t <= minLen)
RECURSIVE hitScanLast(_, _, _, _)
hitScanLast(vec, i, j, best) ==
    LET n == Len(vec)
        i1 == i
        i2 == Wrap1(i, n)
        j2 == IF j < n - 1 THEN j + 1 ELSE 0
        p1 == At(vec, i1)
        p2 == At(vec, i2)
        v1 == At(vec, j)
        v2 == At(vec, j2)
        rest(b) == Then(b, hitScanLast(vec, i, j + 1, b))
        nearer(v, t) ==
            IF ~best.found \/ QLe(t, best.minLen)
            THEN rest([found |-> TRUE, h |-> j, k |-> j2,
                       hitV |-> v, minLen |-> t])
            ELSE rest(best)
        measure(v, dx, dy) == nearer(v, QAdd(QMul(dx, dx), QMul(dy, dy)))
        found(v) ==
            IF v # NULL
            THEN measure(v, QSub(p2[1], v[1]), QSub(p2[2], v[2]))
            ELSE rest(best)
    IN  IF j >= n THEN best
        ELSE IF j # i1 /\ j # i2
        THEN found(hitRay(p1[1], p1[2], p2[1], p2[2],
                          v1[1], v1[2], v2[1], v2[2]))
        ELSE rest(best)

\* The loop over j (lines 114-137) from j on, with the best hit so far:
\* best = [found, h, k, hitV, minLen]; minLen == Number.MAX_VALUE is
\* found = FALSE (every t is below MAX_VALUE).
RECURSIVE hitScan(_, _, _, _)
hitScan(vec, i, j, best) ==
    LET n == Len(vec)
        i1 == i
        i2 == Wrap1(i, n)
        j2 == IF j < n - 1 THEN j + 1 ELSE 0
        p1 == At(vec, i1)
        p2 == At(vec, i2)
        v1 == At(vec, j)
        v2 == At(vec, j2)
        rest(b) == Then(b, hitScan(vec, i, j + 1, b))
        nearer(v, t) ==
            IF ~best.found \/ QLt(t, best.minLen)
            THEN rest([found |-> TRUE, h |-> j, k |-> j2,
                       hitV |-> v, minLen |-> t])
            ELSE rest(best)
        measure(v, dx, dy) == nearer(v, QAdd(QMul(dx, dx), QMul(dy, dy)))
        found(v) ==
            IF v # NULL
            THEN measure(v, QSub(p2[1], v[1]), QSub(p2[2], v[2]))
            ELSE rest(best)
    IN  IF j >= n THEN best
        ELSE IF j # i1 /\ j # i2
        THEN found(hitRay(p1[1], p1[2], p2[1], p2[2],
                          v1[1], v1[2], v2[1], v2[2]))
        ELSE rest(best)

NoHit == [found |-> FALSE, h |-> -1, k |-> -1, hitV |-> NULL, minLen |-> I(0)]

Reverse(s) == [x \in 1..Len(s) |-> s[Len(s) + 1 - x]]

\* The first chain walk (lines 158-181): from k = i1 backwards to j2.
\* [err, vec]: err is the call of err() at line 166.
RECURSIVE chain1(_, _, _, _, _, _, _)
chain1(vec, k, h, j2, v2, p1, acc) ==
    LET n == Len(vec)
    IN  IF k # j2
        THEN LET a == Append(acc, At(vec, k))
             IN  Then(a, chain1(vec, IF k - 1 < 0 THEN n - 1 ELSE k - 1, k,
                                j2, v2, p1, a))
        ELSE IF h < 0 \/ h >= n THEN [err |-> TRUE, vec |-> acc]
        ELSE IF ~isOnSegment(v2[1], v2[2], At(vec, h)[1], At(vec, h)[2],
                             p1[1], p1[2])
             THEN [err |-> FALSE, vec |-> Append(acc, At(vec, k))]
             ELSE [err |-> FALSE, vec |-> acc]

\* The second chain walk (lines 185-208): from k = i2 forwards to j1.
RECURSIVE chain2(_, _, _, _, _, _, _)
chain2(vec, k, h, j1, v1, p2, acc) ==
    LET n == Len(vec)
    IN  IF k # j1
        THEN LET a == Append(acc, At(vec, k))
             IN  Then(a, chain2(vec, IF k + 1 > n - 1 THEN 0 ELSE k + 1, k,
                                j1, v1, p2, a))
        ELSE IF h < 0 \/ h >= n THEN [err |-> TRUE, vec |-> acc]
        ELSE IF ~isOnSegment(v1[1], v1[2], At(vec, h)[1], At(vec, h)[2],
                             p2[1], p2[2])
             THEN [err |-> FALSE, vec |-> Append(acc, At(vec, k))]
             ELSE [err |-> FALSE, vec |-> acc]

\* The two chains of vec for the reflex index i and the hit best that the
\* loop over j ended with (lines 139-210): [err, vec1, vec2].
splitWith(vec, i, best) ==
    LET n == Len(vec)
        i1 == i
        i2 == Wrap1(i, n)
        p1 == At(vec, i1)
        p2 == At(vec, i2)
        failed == [err |-> TRUE, vec1 |-> <<>>, vec2 |-> <<>>]
        second(vec1, c2) ==
            IF c2.err
            THEN [err |-> TRUE, vec1 |-> vec1, vec2 |-> <<>>]
            ELSE [err |-> FALSE, vec1 |-> vec1, vec2 |-> c2.vec]
        first(c1, j1, v1, hitV) ==
            IF c1.err THEN failed
            ELSE second(Reverse(c1.vec),
                        chain2(vec, i2, -1, j1, v1, p2,
                               IF ~pointsMatch(hitV[1], hitV[2], v1[1], v1[2])
                               THEN <<hitV>> ELSE <<>>))
        chains(j1, j2, v1, v2, hitV) ==
            first(chain1(vec, i1, -1, j2, v2, p1,
                         IF ~pointsMatch(hitV[1], hitV[2], v2[1], v2[2])
                         THEN <<hitV>> ELSE <<>>),
                  j1, v1, hitV)
        split(b) ==
            IF ~b.found THEN failed
            ELSE chains(b.h, b.k, At(vec, b.h), At(vec, b.k), b.hitV)
    IN  split(best)

\* The split of vec at its first reflex index i (lines 110-213):
\* [err, vec1, vec2].
splitAt(vec, i) == splitWith(vec, i, hitScan(vec, i, 0, NoHit))

\* the iteration going on after a failed split, with the polygon emitted
calcStepContinue(q, figs) ==
    LET vec == q[1]
        requeue(s) ==
            IF s.err
            THEN [err |-> FALSE, queue |-> Tail(q), figsVec |-> Append(figs, vec)]
            ELSE [err |-> FALSE,
                  queue |-> Tail(q \o <<s.vec1, s.vec2>>),
                  figsVec |-> figs]
        step(i) ==
            IF i < 0
            THEN [err |-> FALSE, queue |-> Tail(q),
                  figsVec |-> Append(figs, vec)]
            ELSE requeue(splitAt(vec, i))
    IN  step(firstReflex(vec))

calcStepNoShift(q, figs) ==
    LET vec == q[1]
        requeue(s) ==
            IF s.err THEN [err |-> TRUE, queue |-> q, figsVec |-> figs]
            ELSE [err |-> FALSE,
                  queue |-> Tail(q \o <<s.vec1, s.vec2>>),
                  figsVec |-> figs]
        step(i) ==
            IF i < 0
            THEN [err |-> FALSE, queue |-> q,
                  figsVec |-> Append(figs, vec)]
            ELSE requeue(splitAt(vec, i))
    IN  step(firstReflex(vec))

\* One iteration of while (queue.length) (lines 95-220):
\* [err, queue, figsVec] after it.
calcStep(q, figs) ==
    LET vec == q[1]
        requeue(s) ==
            IF s.err THEN [err |-> TRUE, queue |-> q, figsVec |-> figs]
            ELSE [err |-> FALSE,
                  queue |-> Tail(q \o <<s.vec1, s.vec2>>),
                  figsVec |-> figs]
        step(i) ==
            IF i < 0
            THEN [err |-> FALSE, queue |-> Tail(q),
                  figsVec |-> Append(figs, vec)]
            ELSE requeue(splitAt(vec, i))
    IN  step(firstReflex(vec))

\* while (queue.length) ... from a given queue and output list on, for at
\* most steps iterations: [err, ended, figsVec]
RECURSIVE calcLoop(_, _, _)
calcLoop(q, figs, steps) ==
    LET rest(r) ==
            IF r.err THEN [err |-> TRUE, ended |-> TRUE, figsVec |-> figs]
            ELSE calcLoop(r.queue, r.figsVec, steps - 1)
    IN  IF q = <<>> THEN [err |-> FALSE, ended |-> TRUE, figsVec |-> figs]
        ELSE IF steps = 0
        THEN [err |-> FALSE, ended |-> FALSE, figsVec |-> figs]
        ELSE rest(calcStep(q, figs))

\* ------------------------------------------------------------------------
\* Box2D as testPlaceBomb uses it: b2PolygonShape::TestPoint and
\* b2Fixture::RayCast on a convex polygon with counter-clockwise vertices.
\* The body's transform is the identity: GetWorldPoint and GetLocalPoint
\* cancel, and the walk is followed in the body's local coordinates.
\* ------------------------------------------------------------------------

VSub(a, b) == <<QSub(a[1], b[1]), QSub(a[2], b[2])>>

Dot(a, b) == QAdd(QMul(a[1], b[1]), QMul(a[2], b[2]))

\* the outward normal of edge i (1-based) of shape, not normalised: the
\* signs and the ratios that TestPoint and RayCast compute are those of the
\* unit normal
EdgeNormal(shape, i) ==
    LET a == shape[i]
        b == shape[(i % Len(shape)) + 1]
    IN  <<QSub(b[2], a[2]), QSub(a[1], b[1])>>

\* shape->TestPoint(transform, v): false as soon as v is strictly on the
\* outer side of one edge
TestPoint(shape, v) ==
    \A i \in 1..Len(shape) :
        QLe(Dot(EdgeNormal(shape, i), VSub(v, shape[i])), I(0))

\* the loop of b2PolygonShape::RayCast over the edges from edge i on:
\* [hit, fraction]
RECURSIVE RayCastLoop(_, _, _, _, _, _, _)
RayCastLoop(shape, p1, d, i, lower, upper, index) ==
    LET miss == [hit |-> FALSE, fraction |-> lower]
        rest(lower1, upper1, index1) ==
            IF QLt(upper1, lower1) THEN miss
            ELSE RayCastLoop(shape, p1, d, i + 1, lower1, upper1, index1)
        edge(numerator, denominator) ==
            IF QIsZero(denominator)
            THEN IF QLt(numerator, I(0)) THEN miss
                 ELSE rest(lower, upper, index)
            ELSE IF /\ QLt(denominator, I(0))
                    /\ QLt(numerator, QMul(lower, denominator))
            THEN rest(QDiv(numerator, denominator), upper, i)
            ELSE IF /\ QLt(I(0), denominator)
                    /\ QLt(numerator, QMul(upper, denominator))
            THEN rest(lower, QDiv(numerator, denominator), index)
            ELSE rest(lower, upper, index)
    IN  IF i > Len(shape)
        THEN [hit |-> index >= 0, fraction |-> lower]
        ELSE edge(Dot(EdgeNormal(shape, i), VSub(shape[i], p1)),
                  Dot(EdgeNormal(shape, i), d))

\* fixture.RayCast(&output, input, 0) with input.maxFraction = 1
RayCast(shape, p1, p2) ==
    RayCastLoop(shape, p1, VSub(p2, p1), 1, I(0), I(1), -1)

\* getCrossoverVertex: [thrown, hitPoint]
getCrossoverVertex(shape, p1, p2) ==
    LET hitPoint(closestFraction) ==
            <<QAdd(p1[1], QMul(closestFraction, QSub(p2[1], p1[1]))),
              QAdd(p1[2], QMul(closestFraction, QSub(p2[2], p1[2])))>>
        result(output) ==
            IF ~output.hit THEN [thrown |-> TRUE, hitPoint |-> NULL]
            ELSE [thrown |-> FALSE,
                  hitPoint |-> hitPoint(IF QLt(output.fraction, I(1))
                                        THEN output.fraction ELSE I(1))]
    IN  result(RayCast(shape, p1, p2))

\* ------------------------------------------------------------------------
\* Prototype::testPlaceBomb: the walk over the blast vertices
\* ------------------------------------------------------------------------

\* The body of the loop over the fixtures (lines 119-188) for one fixture
\* and the blast vertex v; first: it == bombShape->begin(); lastVertex: the
\* vertex before v.  w holds the locals of the walk:
\* [lastState, specialWindingNeeded, specialWindingStarted, crossoverCount,
\*  specialWindingStack, newStructure, brokenStructure, thrown].
walkFixture(fix, v, lastVertex, first, w) ==
    LET crossover(pointIn, c) ==
            LET counted == [w EXCEPT !.lastState = pointIn,
                                     !.crossoverCount = @ + 1]
            IN  IF c.thrown THEN [counted EXCEPT !.thrown = TRUE]
                ELSE IF pointIn
                THEN IF w.specialWindingNeeded
                     THEN [counted EXCEPT
                             !.specialWindingStarted = TRUE,
                             !.specialWindingStack = <<v, c.hitPoint>> \o @]
                     ELSE [counted EXCEPT
                             !.newStructure = @ \o <<c.hitPoint, v>>]
                ELSE [counted EXCEPT
                        !.newStructure = Append(@, c.hitPoint),
                        !.brokenStructure = Append(@, c.hitPoint)]
        test(pointIn) ==
            LET seen == [w EXCEPT !.lastState = pointIn]
                kept == [seen EXCEPT !.newStructure = Append(@, v),
                                     !.brokenStructure = Append(@, v)]
            IN  IF first
                THEN IF pointIn
                     THEN [kept EXCEPT !.specialWindingNeeded = TRUE]
                     ELSE seen
                ELSE IF w.lastState # pointIn
                THEN crossover(pointIn,
                         IF pointIn
                         THEN getCrossoverVertex(fix.shape, lastVertex, v)
                         ELSE getCrossoverVertex(fix.shape, v, lastVertex))
                ELSE IF pointIn
                THEN IF w.specialWindingStarted
                     THEN [seen EXCEPT !.specialWindingStack = <<v>> \o @]
                     ELSE kept
                ELSE seen
    IN  IF fix.isSensor THEN w ELSE test(TestPoint(fix.shape, v))

\* for (fix = body->GetFixtureList(); fix; fix = fix->GetNext()), from the
\* k-th fixture of the list on
RECURSIVE walkFixtures(_, _, _, _, _, _)
walkFixtures(fixtures, k, v, lastVertex, first, w) ==
    LET rest(w1) ==
            Then(w1, walkFixtures(fixtures, k + 1, v, lastVertex, first, w1))
    IN  IF k > Len(fixtures) THEN w
        ELSE rest(walkFixture(fixtures[k], v, lastVertex, first, w))

\* ------------------------------------------------------------------------
\* State
\* ------------------------------------------------------------------------

VARIABLES
    vPoly,          \* Validate: the vertex list handed to Validate
    vRet,           \* Validate: its return value (-1 before the call)
    pVerticesVec,   \* Separate: the caller's vertex vector
    sepInput,       \* Separate: the caller's vector as it was at the call
    queue,          \* calcShapes: the work queue
    figsVec,        \* calcShapes: the output list
    sepPc,          \* Separate: "calc", "done" (returned), "err" (err() thrown)
    sepBody,        \* Separate: pBody, the body the fixtures are created on
    sepSteps,       \* calcShapes: iterations of while (queue.length) so far
    bodies,         \* b2World: the fixture list of every body in the world
    sprites,        \* the layer: the body that getPhysicsBody() of each
                    \* PhysicsSprite kept by the layer refers to
    pc,             \* testPlaceBomb: where the call is
    origFixtures,   \* testPlaceBomb: the fixture list of body at the call
    bombShape,      \* testPlaceBomb: the blast polygon, in body coordinates
    it,             \* testPlaceBomb: the index of the next blast vertex
    walk,           \* testPlaceBomb: the locals of the walk (see walkFixture)
    radius,         \* testPlaceBomb: the radius it is called with
    localPoint,     \* testPlaceBomb: the touch point, in body coordinates
    attempts,       \* testPlaceBomb: calls of generateBlastShape so far
    holdrand,       \* the C library: the state of the rand() stream
    m_radius,       \* Bomb: int m_radius
    m_pForwardHull, \* Bomb: the vertices of *m_pForwardHull (NULL: not set)
    m_pReverseHull  \* Bomb: the vertices of *m_pReverseHull (NULL: not set)

valVars == <<vPoly, vRet>>

sepVars == <<pVerticesVec, sepInput, queue, figsVec, sepPc, sepBody, sepSteps>>

blastVars == <<pc, origFixtures, bombShape, it, walk>>

\* the variables of testPlaceBomb but pc
blastVars_rest == <<origFixtures, bombShape, it, walk>>

genVars == <<radius, localPoint, attempts, holdrand>>

bombVars == <<m_radius, m_pForwardHull, m_pReverseHull>>

vars == <<valVars, sepVars, bodies, sprites, blastVars, genVars, bombVars>>

\* ------------------------------------------------------------------------
\* Inputs
\* ------------------------------------------------------------------------

\* the largest number of vertices of an input polygon
MaxVerts == 4

\* the coordinates of the input vertices: those of the polygons of
\* Prototype::testSeparator (-4, 0, 4)
Coords == {-4, 0, 4}

GridPoints == {P(x, y) : x \in Coords, y \in Coords}

\* every vertex list of 3..MaxVerts grid points (repeated points included)
VertexLists == UNION {[1..n -> GridPoints] : n \in 3..MaxVerts}

\* the polygons the sources hand to Validate and Separate
LShape == <<P(-4, -4), P(4, -4), P(4, 0), P(0, 0), P(0, 4), P(-4, 4)>>

SandboxShape == <<P(-3, -3), P(3, -3), P(3, 0), P(0, 0), P(-3, 3)>>

Square04 == <<P(0, 0), P(4, 0), P(4, 4), P(0, 4)>>

SourcePolygons == {LShape, SandboxShape, Square04}

\* the L-shape with one more vertex on its left edge, 1/512 above the line
\* through the edge (4,0)-(0,0) that calcShapes extends from the reflex
\* vertex (0,0)
LShapeNearHit ==
    <<P(-4, -4), P(4, -4), P(4, 0), P(0, 0), P(0, 4), P(-4, 4),
      <<I(-4), <<1, 512>> >> >>

\* A blast shape that generateBlastShape(8, 8, 0.5f) builds when its random
\* values alternate between high and low: r = 12 along the axes and
\* r = 3 sqrt(2) along the diagonals.  A four-pointed star, with no edge on
\* its convex hull.
BlastStar ==
    <<P(12, 0), P(3, 3), P(0, 12), P(-3, 3),
      P(-12, 0), P(-3, -3), P(0, -12), P(3, -3)>>

\* what Validate is called with
ValidateInputs == VertexLists \cup {BlastStar, Reverse(BlastStar)}

\* what Separate is called with
SeparateInputs == VertexLists \cup SourcePolygons \cup {LShapeNearHit}

\* #define PTM_RATIO 32: the scale every caller passes to Separate
PTM_RATIO == 32

\* the most iterations of while (queue.length) the model follows
MaxShapeSteps == 8

\* ------------------------------------------------------------------------
\* Idle values of the parts a specification does not use
\* ------------------------------------------------------------------------

ValidateIdle == vPoly = <<>> /\ vRet = -1

SeparateIdle ==
    /\ pVerticesVec = <<>>
    /\ sepInput = <<>>
    /\ queue = <<>>
    /\ figsVec = <<>>
    /\ sepPc = "idle"
    /\ sepBody = "none"
    /\ sepSteps = 0

\* the locals of the walk as lines 104-110 initialise them
WalkStart ==
    [lastState |-> FALSE,
     specialWindingNeeded |-> FALSE,
     specialWindingStarted |-> FALSE,
     crossoverCount |-> 0,
     specialWindingStack |-> <<>>,
     newStructure |-> <<>>,
     brokenStructure |-> <<>>,
     thrown |-> FALSE]

BlastIdle ==
    /\ pc = "idle"
    /\ origFixtures = <<>>
    /\ bombShape = <<>>
    /\ it = 0
    /\ walk = WalkStart

GeneratorIdle ==
    radius = I(0) /\ localPoint = NULL /\ attempts = 0 /\ holdrand = 0

BombIdle == m_radius = 0 /\ m_pForwardHull = NULL /\ m_pReverseHull = NULL

\* a world with no body
NoBodies == [b \in {} |-> <<>>]

\* a layer that keeps no PhysicsSprite
NoSprites == [s \in {} |-> "none"]

\* the sprite of the body that testPlaceBomb is called with: the caller
\* finds the body through it (getPhysicsSpriteAtXY, then getPhysicsBody),
\* and it is a child of the layer (Breakable's constructor) or an entry of
\* m_sprites (testSimple, testSeparator)
SpriteOfBody == [s \in {"ps"} |-> "body"]

\* ------------------------------------------------------------------------
\* SpecValidate: Validate applied to every vertex list
\* ------------------------------------------------------------------------

InitValidate ==
    /\ vPoly \in ValidateInputs
    /\ vRet = -1
    /\ SeparateIdle
    /\ bodies = NoBodies
    /\ sprites = NoSprites
    /\ BlastIdle
    /\ GeneratorIdle
    /\ BombIdle

CallValidate ==
    /\ vRet = -1
    /\ vPoly # <<>>
    /\ vRet' = Validate(vPoly)
    /\ UNCHANGED <<sprites, genVars, bombVars, vPoly, sepVars, bodies,
                   blastVars>>

NextValidate == CallValidate

SpecValidate == InitValidate /\ [][NextValidate]_vars

\* the same square with its vertices in reverse order, and a bowtie
Square04Reversed == Reverse(Square04)

Bowtie == <<P(0, 0), P(4, 4), P(4, 0), P(0, 4)>>

\* C4 (validator soundness): once Validate has returned, the result is 0
\* for the square [(0,0),(4,0),(4,4),(0,4)], 2 for the same square in
\* reverse order, and 1 or 3 for the bowtie [(0,0),(4,4),(4,0),(0,4)].
C4_ValidatorSoundness ==
    vRet # -1 =>
        /\ vPoly = Square04 => vRet = 0
        /\ vPoly = Square04Reversed => vRet = 2
        /\ vPoly = Bowtie => vRet \in {1, 3}

\* Validate has returned for the reversed square
C4_Witness == vPoly = Square04Reversed /\ vRet # -1

\* det of the consecutive vertex triple (i-1, i, i+1) of v (0-based, cyclic)
TripleDet(v, i) ==
    LET n == Len(v)
        at(a, b, c) == det(a[1], a[2], b[1], b[2], c[1], c[2])
    IN  at(At(v, (i + n - 1) % n), At(v, i), At(v, (i + 1) % n))

\* C23 (winding rule): once Validate has returned, a polygon with a
\* consecutive vertex triple that turns against the expected winding
\* (negative determinant) has a winding failure (result 2 or 3), and a
\* polygon with a winding failure has a consecutive triple whose
\* determinant is not of the expected sign (negative or zero).
C23_WindingRule ==
    vRet # -1 =>
        /\ (\E i \in 0..(Len(vPoly) - 1) : QLt(TripleDet(vPoly, i), I(0)))
               => vRet \in {2, 3}
        /\ vRet \in {2, 3}
               => \E i \in 0..(Len(vPoly) - 1) :
                      QLe(TripleDet(vPoly, i), I(0))

\* v holds the same point at two consecutive positions of the list
HasEqualConsecutive(v) == \E i \in 1..(Len(v) - 1) : v[i] = v[i + 1]

\* C15 (degenerate rejection): once Validate has returned for a vertex list
\* that holds two equal consecutive points, the result is 1 or 3, never 0
\* and never 2.
C15_DegenerateRejected ==
    (vRet # -1 /\ HasEqualConsecutive(vPoly)) => vRet \in {1, 3}

\* the edges i -> i+1 and j -> j+1 of v (0-based, cyclic) share no vertex
NonAdjacent(n, i, j) ==
    /\ j # i
    /\ j # (i + 1) % n
    /\ j # (i + n - 1) % n

\* the self-intersection check over all edges: some pair of non-adjacent
\* edges has a hitSegment point
SomeEdgesIntersect(v) ==
    LET n == Len(v)
    IN  \E i \in 0..(n - 1) : \E j \in 0..(n - 1) :
            /\ NonAdjacent(n, i, j)
            /\ hitSegment(At(v, i)[1], At(v, i)[2],
                          At(v, (i + 1) % n)[1], At(v, (i + 1) % n)[2],
                          At(v, j)[1], At(v, j)[2],
                          At(v, (j + 1) % n)[1], At(v, (j + 1) % n)[2]) # NULL

\* the winding check over all edges: some edge i -> i+1 has no other
\* vertex j with (int) det(v[i], v[i+1], v[j]) > 0
WindingFails(v) ==
    LET n == Len(v)
    IN  \E i \in 0..(n - 1) : \A j \in 0..(n - 1) :
            (j # i /\ j # (i + 1) % n) =>
                Trunc(det(At(v, i)[1], At(v, i)[2],
                          At(v, (i + 1) % n)[1], At(v, (i + 1) % n)[2],
                          At(v, j)[1], At(v, j)[2])) <= 0

\* C5 (both checks, independently): the result of Validate is 1 exactly
\* for the self-intersection check failing plus 2 exactly for the winding
\* check failing, each taken over all edges whatever the other found:
\* 0 neither, 1 intersection only, 2 winding only, 3 both.
C5_ChecksIndependent ==
    vRet # -1 =>
        vRet = (IF SomeEdgesIntersect(vPoly) THEN 1 ELSE 0)
                + (IF WindingFails(vPoly) THEN 2 ELSE 0)

\* Validate has returned 3: both checks failed on one polygon
C5_Witness == vRet = 3 /\ SomeEdgesIntersect(vPoly) /\ WindingFails(vPoly)

\* v is a simple polygon: its vertices are distinct points and no two of
\* its non-adjacent edges meet
Simple(v) ==
    /\ \A a, b \in 1..Len(v) : a # b => v[a] # v[b]
    /\ ~SomeEdgesIntersect(v)

\* C27 (orientation discrimination): once Validate has returned 0 for a
\* simple polygon, Validate reports a winding failure (2 or 3) for the
\* same vertices in reverse order: it never returns 0 for both orders.
C27_OrientationDiscrimination ==
    (vRet = 0 /\ Simple(vPoly)) => Validate(Reverse(vPoly)) \in {2, 3}

\* ------------------------------------------------------------------------
\* SpecSeparate: Separate(pBody, pFixtureDef, pVerticesVec, PTM_RATIO)
\* ------------------------------------------------------------------------

ScaleUp(vec, scale) ==
    [x \in 1..Len(vec) |-> <<QMul(vec[x][1], I(scale)), QMul(vec[x][2], I(scale))>>]

ScaleDown(vec, scale) ==
    [x \in 1..Len(vec) |-> <<QDiv(vec[x][1], I(scale)), QDiv(vec[x][2], I(scale))>>]

\* The caller has called Validate on the vector and, whatever it returned,
\* calls Separate (Sandbox::initB2SeparatorExample); lines 12-21: pVec is
\* the scaled copy, and calcShapes starts with it queued.
InitSeparateWith(inputs) ==
    /\ pVerticesVec \in inputs
    /\ vPoly = pVerticesVec
    /\ vRet = Validate(vPoly)
    /\ sepInput = pVerticesVec
    /\ queue = <<ScaleUp(pVerticesVec, PTM_RATIO)>>
    /\ figsVec = <<>>
    /\ sepPc = "calc"
    /\ sepBody = "pBody"
    /\ sepSteps = 0
    /\ bodies = [b \in {"pBody"} |-> <<>>]
    /\ sprites = NoSprites
    /\ BlastIdle
    /\ GeneratorIdle
    /\ BombIdle

InitSeparate == InitSeparateWith(SeparateInputs)

\* poly with the vertices at the positions not in keep left out
CutPolygon(poly, keep) ==
    LET idx == SelectSeq([x \in 1..Len(poly) |-> x], LAMBDA x : x \in keep)
    IN  SubSeq([k \in 1..Len(idx) |-> poly[idx[k]]], 1, Len(idx))

\* the polygons of the sources and every polygon of three or more of their
\* vertices, in their order
CutPolygons ==
    UNION {{CutPolygon(poly, keep) :
               keep \in {ks \in SUBSET (1..Len(poly)) : Cardinality(ks) >= 3}} :
           poly \in SourcePolygons}

\* the vectors calcShapes is given for them
SeparateQueued == {ScaleUp(v, PTM_RATIO) : v \in CutPolygons}

\* What one iteration does with the polygon vec at the head of the queue,
\* for every polygon of polys and every polygon that the iterations put on
\* the queue within n iterations: [vec, err, queue, figsVec], where queue
\* is what the iteration pushes and figsVec what it adds to the output.
RECURSIVE CalcStepsFrom(_, _)
CalcStepsFrom(polys, n) ==
    LET row(vec, r) ==
            [vec |-> SubSeq(vec, 1, Len(vec)), err |-> r.err,
             queue |-> r.queue, figsVec |-> r.figsVec]
        pieces(rows) ==
            UNION {{rw.queue[k] : k \in 1..Len(rw.queue)} :
                      rw \in {x \in rows : ~x.err}}
        more(rows) == rows \cup CalcStepsFrom(pieces(rows), n - 1)
    IN  IF n = 0 \/ polys = {} THEN {}
        ELSE more({row(v, calcStep(<<v>>, <<>>)) : v \in polys})

\* the iterations of the calls with SeparateQueued, worked out once
CalcSteps == CalcStepsFrom(SeparateQueued, MaxShapeSteps)

\* one iteration of calcShapes' while loop: the row of CalcSteps for the
\* head of the queue, or calcStep itself for a polygon CalcSteps has no row
\* for
CalcShapesStep ==
    /\ sepPc = "calc"
    /\ queue # <<>>
    /\ sepSteps < MaxShapeSteps
    /\ LET step(r) ==
               /\ queue' = r.queue
               /\ figsVec' = r.figsVec
               /\ sepPc' = IF r.err THEN "err" ELSE "calc"
               \* testPlaceBomb catches the exception (lines 220-222)
               /\ pc' = IF pc = "separate" /\ r.err THEN "done" ELSE pc
       IN  \/ \E rw \in CalcSteps :
                 /\ rw.vec = queue[1]
                 /\ step([err |-> rw.err,
                          queue |-> IF rw.err THEN queue
                                    ELSE Tail(queue) \o rw.queue,
                          figsVec |-> figsVec \o rw.figsVec])
           \/ /\ ~(\E rw \in CalcSteps : rw.vec = queue[1])
              /\ step(calcStep(queue, figsVec))
    /\ sepSteps' = sepSteps + 1
    /\ UNCHANGED <<sprites, genVars, bombVars, valVars, pVerticesVec, sepInput,
                   sepBody, bodies, origFixtures, bombShape, it, walk>>

\* The shape of a fixture that Separate creates.  Line 32 hands
\* polyShape.Set the address of the vector object, (b2Vec2*)&pVerticesVec[0],
\* in place of the address of its first element: what Set reads is not
\* defined, and the shape is the figure or anything else.
UndefinedShape == <<"undefined">>

\* the fixture list of a body after CreateFixture for each of shapes in
\* turn: b2Body::CreateFixture puts the new fixture at the head of the list
RECURSIVE CreateFixtures(_, _, _, _)
CreateFixtures(fixtures, shapes, x, sensor) ==
    IF x > Len(shapes) THEN fixtures
    ELSE CreateFixtures(<<[shape |-> shapes[x], isSensor |-> sensor]>>
                            \o fixtures, shapes, x + 1, sensor)

\* lines 22-35: calcShapes has returned; each figure is copied, scaled
\* down, into the caller's vector (cleared first) and made a fixture
SeparateFinish ==
    /\ sepPc = "calc"
    /\ queue = <<>>
    /\ \E undefined \in BOOLEAN :
           LET shapes == [x \in 1..Len(figsVec) |->
                            IF undefined THEN UndefinedShape
                            ELSE ScaleDown(figsVec[x], PTM_RATIO)]
           IN  bodies' = [bodies EXCEPT
                            ![sepBody] = CreateFixtures(@, shapes, 1, FALSE)]
    /\ pVerticesVec' = IF figsVec = <<>> THEN pVerticesVec
                       ELSE ScaleDown(figsVec[Len(figsVec)], PTM_RATIO)
    /\ sepPc' = "done"
    \* newStructure is the vector that Separate was handed (line 219)
    /\ walk' = IF pc = "separate"
               THEN [walk EXCEPT !.newStructure = pVerticesVec']
               ELSE walk
    /\ pc' = IF pc = "separate" THEN "done" ELSE pc
    /\ UNCHANGED <<sprites, genVars, bombVars, valVars, sepInput, queue, figsVec,
                   sepBody, sepSteps, origFixtures, bombShape, it>>

NextSeparate == CalcShapesStep \/ SeparateFinish

SpecSeparate == InitSeparate /\ [][NextSeparate]_vars

\* Separate called with the polygons of CutPolygons.  calcShapes is one
\* sequential loop and Separate's loop follows it: the next iteration runs
\* whenever there is one.
InitSeparateFair == InitSeparateWith(CutPolygons)

SpecSeparateFair ==
    InitSeparateFair /\ [][NextSeparate]_vars /\ WF_vars(NextSeparate)

\* C20 (decomposition termination): for a polygon that Validate accepts
\* (result 0), a call of Separate that is working through calcShapes' queue
\* leads to the call having returned, with the queue empty, or to err()
\* having been raised.
C20_DecompositionTerminates ==
    (vRet = 0 /\ sepPc = "calc")
        ~> ((sepPc = "done" /\ queue = <<>>) \/ sepPc = "err")

\* Separate has returned for an accepted polygon that calcShapes had to
\* split
C20_Witness ==
    vRet = 0 /\ sepPc = "done" /\ queue = <<>> /\ Len(figsVec) >= 2

\* C16 (input immutability of Separate): when Separate has returned, the
\* caller's vertex list is the list it was called with: the same length
\* and the same points in the same order.
C16_InputUnchanged ==
    sepPc = "done" => pVerticesVec = sepInput

\* det(v[i], v[i+1], v[i+2]) >= 0 at every cyclic index i of piece
NoReflexVertex(piece) ==
    LET n == Len(piece)
    IN  \A i \in 0..(n - 1) :
            LET a == At(piece, i)
                b == At(piece, (i + 1) % n)
                c == At(piece, (i + 2) % n)
            IN  QLe(I(0), det(a[1], a[2], b[1], b[2], c[1], c[2]))

\* C2 (decomposition convexity): for a polygon that Validate accepted
\* (result 0), every polygon in the output list of calcShapes has no reflex
\* vertex: det(v[i], v[i+1], v[i+2]) >= 0 at every cyclic index i.
C2_PiecesConvex ==
    vRet = 0 => \A x \in 1..Len(figsVec) : NoReflexVertex(figsVec[x])

\* Separate has returned for an accepted polygon that calcShapes split
C2_Witness == vRet = 0 /\ sepPc = "done" /\ Len(figsVec) >= 2

\* vec has a reflex vertex and the ray through it meets no other edge
\* (minLen is still Number.MAX_VALUE after the loop over j), or meets the
\* edge that ends at the reflex edge's own start, so that the chain walk is
\* at the hit edge with no previous vertex
SplitFails(vec) ==
    LET fails(i, best) ==
            \/ ~best.found
            \/ best.k = i
            \/ best.h = Wrap1(i, Len(vec))
        at(i) == i >= 0 /\ fails(i, hitScan(vec, i, 0, NoHit))
    IN  at(firstReflex(vec))

\* C13 (decomposition failure policy): an iteration of calcShapes on a
\* polygon whose split fails raises the error; the step that raises it adds
\* no piece, creates no fixture and leaves the caller's vector alone; and
\* nothing runs on after the error.
C13_DecompositionFailure ==
    [][/\ sepPc # "err"
       /\ (sepPc = "calc" /\ queue # <<>> /\ SplitFails(queue[1]))
              => sepPc' = "err"
       /\ sepPc' = "err" =>
              /\ figsVec' = figsVec
              /\ bodies' = bodies
              /\ pVerticesVec' = pVerticesVec]_vars

\* calcShapes has raised its error in a call of Separate
C13_Witness == sepPc = "err" /\ sepBody = "pBody" /\ bodies[sepBody] = <<>>

\* twice the signed shoelace area of poly, summed from vertex i on
RECURSIVE Shoelace2(_, _)
Shoelace2(poly, i) ==
    IF i > Len(poly) THEN I(0)
    ELSE LET a == poly[i]
             b == poly[(i % Len(poly)) + 1]
         IN  QAdd(QSub(QMul(a[1], b[2]), QMul(b[1], a[2])),
                  Shoelace2(poly, i + 1))

\* twice the shoelace area of poly
Area2(poly) == QDist(I(0), Shoelace2(poly, 1))

RECURSIVE SumArea2(_, _)
SumArea2(figs, x) ==
    IF x > Len(figs) THEN I(0) ELSE QAdd(Area2(figs[x]), SumArea2(figs, x + 1))

\* the relative tolerance 1e-6 of the area comparison
RelTol == <<1, 1000000>>

\* C3 (decomposition area conservation): for a polygon that Validate
\* accepted, when calcShapes has returned, the shoelace areas of the pieces
\* of its output list sum to the shoelace area of its input polygon, to
\* within the relative tolerance 1e-6.
C3_AreaConserved ==
    (vRet = 0 /\ sepPc = "done") =>
        LET within(whole, parts) ==
                QLe(QDist(whole, parts), QMul(whole, RelTol))
        IN  within(Area2(ScaleUp(sepInput, PTM_RATIO)), SumArea2(figsVec, 1))

\* the hitRay intersection of the ray from vec[i] through vec[i + 1] with
\* the edge that starts at vec[j]
HitAt(vec, i, j) ==
    LET n == Len(vec)
        p1 == At(vec, i)
        p2 == At(vec, Wrap1(i, n))
        v1 == At(vec, j)
        v2 == At(vec, IF j < n - 1 THEN j + 1 ELSE 0)
    IN  hitRay(p1[1], p1[2], p2[1], p2[2], v1[1], v1[2], v2[1], v2[2])

\* the squared distance from vec[i + 1] to that intersection
HitDist(vec, i, j) ==
    LET p2 == At(vec, Wrap1(i, Len(vec)))
        sq(dx, dy) == QAdd(QMul(dx, dx), QMul(dy, dy))
        from(v) == sq(QSub(p2[1], v[1]), QSub(p2[2], v[2]))
    IN  from(HitAt(vec, i, j))

\* the edges other than (i, i + 1) and (i + 1, i + 2) that the ray meets
HitEdges(vec, i) ==
    {j \in 0..(Len(vec) - 1) :
        j # i /\ j # Wrap1(i, Len(vec)) /\ HitAt(vec, i, j) # NULL}

\* those of them at the minimal squared distance
NearestEdges(vec, i) ==
    {j \in HitEdges(vec, i) :
        \A m \in HitEdges(vec, i) : QLe(HitDist(vec, i, j), HitDist(vec, i, m))}

\* the nearest hit on the edge with the smallest index
NearestHit(vec, i) ==
    LET n == Len(vec)
        on(j) == [found |-> TRUE, h |-> j,
                  k |-> IF j < n - 1 THEN j + 1 ELSE 0,
                  hitV |-> HitAt(vec, i, j), minLen |-> HitDist(vec, i, j)]
    IN  IF HitEdges(vec, i) = {} THEN NoHit
        ELSE on(LeastOr(NearestEdges(vec, i)))

\* C26 (deterministic split choice): an iteration of calcShapes on a polygon
\* with a reflex vertex that does not raise the error splits it at the first
\* index i with det(v[i], v[i+1], v[i+2]) < 0, at the hitRay intersection of
\* the ray from v[i] through v[i+1] with an edge other than (i, i+1) and
\* (i+1, i+2) at the minimal squared distance to v[i+1], and of several
\* such edges the one with the smallest index; the two pieces go to the end
\* of the queue in that order.
C26_SplitChoice ==
    [][(/\ sepPc = "calc" /\ sepPc' = "calc"
        /\ sepSteps' = sepSteps + 1
        /\ queue # <<>>
        /\ firstReflex(queue[1]) >= 0)
           => LET pieces(s) ==
                      /\ ~s.err
                      /\ queue' = Tail(queue) \o <<s.vec1, s.vec2>>
                      /\ figsVec' = figsVec
                  at(vec, i) == pieces(splitWith(vec, i, NearestHit(vec, i)))
              IN  at(queue[1], firstReflex(queue[1]))]_vars

\* the polygon at the head of the queue has a reflex vertex whose ray meets
\* several edges at the same minimal distance
SplitTie ==
    /\ sepPc = "calc" /\ queue # <<>>
    /\ LET tie(vec, i) == i >= 0 /\ Cardinality(NearestEdges(vec, i)) >= 2
       IN  tie(queue[1], firstReflex(queue[1]))

\* calcShapes has split a polygon whose ray met several edges at the same
\* minimal distance: the pieces are in the queue
C26_Witness ==
    /\ sepPc = "calc" /\ Len(queue) >= 2 /\ sepSteps >= 1
    /\ LET made(s) == ~s.err /\ queue = <<s.vec1, s.vec2>>
           from(src, i) ==
               /\ i >= 0
               /\ Cardinality(NearestEdges(src, i)) >= 2
               /\ made(splitAt(src, i))
           of(src) == from(src, firstReflex(src))
       IN  of(ScaleUp(sepInput, PTM_RATIO))

\* C29 (non-degenerate work items): every polygon on the work queue of
\* calcShapes and every polygon of its output list has at least 3 vertices
\* (every polygon Separate is called with has at least 3).
C29_WorkItemsNonDegenerate ==
    /\ \A x \in 1..Len(queue) : Len(queue[x]) >= 3
    /\ \A x \in 1..Len(figsVec) : Len(figsVec[x]) >= 3

\* ------------------------------------------------------------------------
\* Spec: Prototype::testPlaceBomb from line 104 on, the walk over the blast
\* polygon and the rebuild of the structure
\* ------------------------------------------------------------------------

\* dynamicBox.SetAsBox(4, 4): the 256 x 256 pixel structure of testSimple
Box44 == <<P(-4, -4), P(4, -4), P(4, 4), P(-4, 4)>>

\* the figures of the L-shape body of testSeparator, as calcShapes leaves
\* them
LShapeFigures ==
    LET down(figs) == [x \in 1..Len(figs) |-> ScaleDown(figs[x], PTM_RATIO)]
    IN  down(calcLoop(<<ScaleUp(LShape, PTM_RATIO)>>, <<>>, MaxShapeSteps).figsVec)

\* the fixture lists of the bodies a blast is applied to
StructureFixtures ==
    {CreateFixtures(<<>>, <<Box44>>, 1, FALSE),
     CreateFixtures(<<>>, <<Square04>>, 1, FALSE),
     CreateFixtures(<<>>, LShapeFigures, 1, FALSE)}

\* s turned by k vertices
Rotate(s, k) == [x \in 1..Len(s) |-> s[((x + k - 1) % Len(s)) + 1]]

\* blast outlines of radius 1 about the origin, counter-clockwise as
\* generateBlastShape winds them: the square from each of its corners, and
\* the four points of the axes
UnitShapes ==
    {Rotate(<<P(-1, -1), P(1, -1), P(1, 1), P(-1, 1)>>, k) : k \in 0..3}
        \cup {<<P(1, 0), P(0, 1), P(-1, 0), P(0, -1)>>}

BlastRadii == {1, 3, 5}

\* localPoint: where the touch falls, in body coordinates
BlastCentres ==
    {P(4, 2), P(2, 2), P(0, 0), P(8, 8), P(0, 4), P(-4, -4), P(-2, 0)}

\* the blast polygon at line 104: a shape of the given radius, moved to
\* localPoint (lines 88-91)
BlastAt(unit, r, centre) ==
    [x \in 1..Len(unit) |->
        <<QAdd(QMul(unit[x][1], I(r)), centre[1]),
          QAdd(QMul(unit[x][2], I(r)), centre[2])>>]

BlastShapes ==
    {BlastAt(u, r, c) : u \in UnitShapes, r \in BlastRadii, c \in BlastCentres}

\* lines 72-75
breakableShape == <<P(-4, 4), P(-4, -4), P(4, -4), P(4, 4)>>

\* The state at line 104.  The body carries its structure fixtures and, at
\* the head of the list, the sensor fixture that Separate (line 94) made for
\* the blast polygon, a convex polygon in one figure.
Init ==
    /\ bombShape \in BlastShapes
    /\ \E structure \in StructureFixtures :
       \E sensorShape \in {bombShape, UndefinedShape} :
           /\ origFixtures = CreateFixtures(structure, <<sensorShape>>, 1, TRUE)
           /\ bodies = [b \in {"body"} |-> origFixtures]
    /\ sprites = SpriteOfBody
    /\ pc = "walk"
    /\ it = 0
    /\ walk = WalkStart
    /\ ValidateIdle
    /\ SeparateIdle
    /\ GeneratorIdle
    /\ BombIdle

\* one iteration of the loop over the blast vertices (lines 111-193)
WalkVertex ==
    /\ pc = "walk"
    /\ it < Len(bombShape)
    /\ walk' = walkFixtures(bodies["body"], 1, At(bombShape, it),
                            IF it = 0 THEN NULL ELSE At(bombShape, it - 1),
                            it = 0, walk)
    /\ it' = it + 1
    /\ UNCHANGED <<sprites, genVars, bombVars, valVars, sepVars, bodies, pc,
                   origFixtures, bombShape>>

\* lines 195-208: the special-winding stack is emptied into both
\* structures, and the corners of breakableShape are appended
MergeStructures ==
    /\ pc = "walk"
    /\ it = Len(bombShape)
    /\ walk' = [walk EXCEPT
                  !.specialWindingStack = <<>>,
                  !.newStructure =
                      @ \o walk.specialWindingStack
                        \o SubSeq(breakableShape, 1, 3),
                  !.brokenStructure =
                      @ \o walk.specialWindingStack
                        \o SubSeq(breakableShape, 4, 4)]
    /\ pc' = "replace"
    /\ UNCHANGED <<sprites, genVars, bombVars, valVars, sepVars, bodies,
                   origFixtures, bombShape, it>>

\* lines 210-211: m_pWorld->DestroyBody(body); CreateBody(&m_bodyDef)
ReplaceBody ==
    /\ pc = "replace"
    /\ bodies' = [b \in {"newBreakable"} |-> <<>>]
    /\ pc' = "validate"
    /\ UNCHANGED <<sprites, genVars, bombVars, valVars, sepVars, blastVars_rest>>

\* lines 212-216: sep.Validate(*newStructure); the result is dropped
ValidateNewStructure ==
    /\ pc = "validate"
    /\ vPoly' = walk.newStructure
    /\ vRet' = Validate(walk.newStructure)
    /\ pc' = "call"
    /\ UNCHANGED <<sprites, genVars, bombVars, sepVars, bodies, blastVars_rest>>

\* line 219 and lines 12-21 of Separate: the scaled copy is queued
SeparateNewStructure ==
    /\ pc = "call"
    /\ pVerticesVec' = walk.newStructure
    /\ sepInput' = walk.newStructure
    /\ queue' = <<ScaleUp(walk.newStructure, PTM_RATIO)>>
    /\ figsVec' = <<>>
    /\ sepPc' = "calc"
    /\ sepBody' = "newBreakable"
    /\ sepSteps' = 0
    /\ pc' = "separate"
    /\ UNCHANGED <<sprites, genVars, bombVars, valVars, bodies, blastVars_rest>>

Next ==
    \/ WalkVertex
    \/ MergeStructures
    \/ ReplaceBody
    \/ ValidateNewStructure
    \/ SeparateNewStructure
    \/ CalcShapesStep
    \/ SeparateFinish

Spec == Init /\ [][Next]_vars

\* the shapes of the structure fixtures of the body the blast is applied to
StructureShapes ==
    LET structure == SelectSeq(origFixtures, LAMBDA f : ~f.isSensor)
    IN  [k \in 1..Len(structure) |-> structure[k].shape]

\* the original body is in the world with the fixtures it had at the call,
\* and no other body is
BodyUntouched == DOMAIN bodies = {"body"} /\ bodies["body"] = origFixtures

\* the polygon the new body is built from: the vector handed to Separate
remaining == sepInput

debris == walk.brokenStructure

\* the blast of the end-to-end example
StraddlingBlast == <<P(3, 1), P(5, 1), P(5, 3), P(3, 3)>>

\* C1 (end-to-end split): for the structure [(0,0),(4,0),(4,4),(0,4)] and
\* the blast [(3,1),(5,1),(5,3),(3,3)], the finished blast application has
\* found exactly 2 crossovers, (4,1) and (4,3), and leaves a remaining
\* polygon of area 12 and a debris polygon of area 4.
C1_EndToEndSplit ==
    (pc = "done" /\ StructureShapes = <<Square04>> /\ bombShape = StraddlingBlast)
        => /\ walk.crossoverCount = 2
           /\ \E x \in 1..Len(remaining) : remaining[x] = P(4, 1)
           /\ \E x \in 1..Len(remaining) : remaining[x] = P(4, 3)
           /\ Area2(remaining) = I(24)
           /\ Area2(debris) = I(8)

\* every blast vertex is outside every structure fixture
BlastOutside ==
    \A x \in 1..Len(bombShape) : \A k \in 1..Len(StructureShapes) :
        ~TestPoint(StructureShapes[k], bombShape[x])

\* no vertex of a structure fixture is inside the blast polygon
StructureOutsideBlast ==
    \A k \in 1..Len(StructureShapes) : \A x \in 1..Len(StructureShapes[k]) :
        ~TestPoint(bombShape, StructureShapes[k][x])

\* C6 (no-op outcome): a blast with no crossover, every blast vertex
\* outside the structure and no structure vertex inside the blast leaves,
\* when the application has finished, the original body in the world with
\* its fixtures unchanged, and no new body.
C6_NoOpUnaffected ==
    (pc = "done" /\ walk.crossoverCount = 0 /\ BlastOutside
        /\ StructureOutsideBlast) => BodyUntouched

\* v is strictly inside the convex counter-clockwise polygon shape
StrictlyInside(shape, v) ==
    \A i \in 1..Len(shape) :
        QLt(Dot(EdgeNormal(shape, i), VSub(v, shape[i])), I(0))

\* the blast polygon strictly contains every vertex of the structure
BlastContainsStructure ==
    \A k \in 1..Len(StructureShapes) : \A x \in 1..Len(StructureShapes[k]) :
        StrictlyInside(bombShape, StructureShapes[k][x])

\* C7 (full consumption): when the blast polygon strictly contains every
\* vertex of the structure, the finished application has destroyed the old
\* body and created no replacement body.
C7_FullyConsumed ==
    (pc = "done" /\ BlastContainsStructure) => DOMAIN bodies = {}

\* a step of the application has failed: the rebuilt polygon does not
\* validate, getCrossoverVertex found no intersection, or calcShapes raised
\* its error
StepFailed == vRet \in {1, 2, 3} \/ walk.thrown \/ sepPc = "err"

\* C8 (all-or-nothing): when a step of the application has failed, the
\* finished call leaves the original body in the world with its fixtures
\* and no new body; and the old body is gone only when Separate has
\* returned for the rebuilt polygon.
C8_AllOrNothing ==
    /\ (pc = "done" /\ StepFailed) => BodyUntouched
    /\ "body" \notin DOMAIN bodies => sepPc = "done"

\* C12 (crossover failure policy): once getCrossoverVertex has thrown in
\* the walk, the original body stays in the world with its fixtures, no new
\* body is made, and Separate is not called.
C12_CrossoverFailureNoOp ==
    walk.thrown => (BodyUntouched /\ sepPc = "idle")

\* C17 (replacement bodies): when the split has destroyed the old body,
\* the world holds a new body for the remaining polygon, and for a debris
\* polygon that was computed (three points or more) one more body: the
\* debris is not dropped.
C17_ReplacementBodies ==
    (pc = "done" /\ "body" \notin DOMAIN bodies) =>
        /\ "newBreakable" \in DOMAIN bodies
        /\ Len(debris) >= 3 => Cardinality(DOMAIN bodies) = 2

\* C18 (no dangling body reference): the body that getPhysicsBody() of
\* every PhysicsSprite kept by the layer refers to is a body of the world.
C18_NoDanglingBody ==
    \A s \in DOMAIN sprites : sprites[s] \in DOMAIN bodies

\* the column -4 <= x <= 0 of the L-shape of testSeparator, which its two
\* figures cover together
LShapeColumn == <<P(-4, -4), P(0, -4), P(0, 4), P(-4, 4)>>

\* convex parts of the structure's area: every fixture, and the column of
\* the L-shape
ConvexParts ==
    LET shapes(figs) == {figs[k] : k \in 1..Len(figs)}
    IN  shapes(StructureShapes)
            \cup (IF shapes(StructureShapes) = shapes(LShapeFigures)
                  THEN {LShapeColumn} ELSE {})

\* the blast polygon lies in the structure and shares no point with its
\* boundary: all its vertices are strictly inside one convex part
BlastInsideStructure ==
    \E part \in ConvexParts :
        \A x \in 1..Len(bombShape) : StrictlyInside(part, bombShape[x])

\* C19 (crossover parity): when the loop over the blast vertices has ended
\* for a blast polygon that lies inside the structure and shares no point
\* with its boundary, crossoverCount is even, whether the structure is one
\* fixture or several.
C19_CrossoverParity ==
    (pc # "walk" /\ BlastInsideStructure) => walk.crossoverCount % 2 = 0

\* C14 (validation gate): Separate is entered only with a vertex list that
\* Validate was given and for which Validate returned 0: whenever a call of
\* Separate has begun, the list it was handed is the validated one and the
\* result of the validation is 0.
C14_ValidationGate ==
    sepPc # "idle" => (vPoly = sepInput /\ vRet = 0)

\* the x-th blast vertex is in the one fixture of the structure
InsideFixture(x) == TestPoint(StructureShapes[1], bombShape[x])

\* The walk starts inside the one fixture of the structure, leaves it
\* between the blast vertices k and k + 1 and comes back between m - 1
\* and m: the vertices 1..k and m..Len(bombShape) are inside, the others
\* outside.
LeavesAndReenters(k, m) ==
    /\ Len(StructureShapes) = 1
    /\ 1 <= k /\ k + 1 < m /\ m <= Len(bombShape)
    /\ \A x \in 1..Len(bombShape) : InsideFixture(x) <=> (x <= k \/ x >= m)

\* the inside-blast points in the blast's own traversal order: the re-entry
\* crossover, the vertices m..Len(bombShape), the vertices 1..k, the exit
\* crossover
BlastOrder(k, m) ==
    <<getCrossoverVertex(StructureShapes[1], bombShape[m - 1],
                         bombShape[m]).hitPoint>>
        \o SubSeq(bombShape, m, Len(bombShape))
        \o SubSeq(bombShape, 1, k)
        \o <<getCrossoverVertex(StructureShapes[1], bombShape[k + 1],
                                bombShape[k]).hitPoint>>

\* the chain without the count corners of breakableShape that lines
\* 205-208 append to it
BlastPortion(chain, count) == SubSeq(chain, 1, Len(chain) - count)

\* C21 (special-winding order): when the walk that started inside the
\* structure, left it and came back has been merged, the inside-blast
\* portion of the remaining chain and of the debris chain lists the points
\* in the blast's traversal order or entirely in its reverse.
C21_SpecialWindingOrder ==
    \A k, m \in 1..Len(bombShape) :
        (pc = "replace" /\ LeavesAndReenters(k, m)) =>
            /\ BlastPortion(walk.newStructure, 3)
                   \in {BlastOrder(k, m), Reverse(BlastOrder(k, m))}
            /\ BlastPortion(walk.brokenStructure, 1)
                   \in {BlastOrder(k, m), Reverse(BlastOrder(k, m))}

\* the x-th blast vertex is in the structure: in one of its fixtures
InsideStructure(x) ==
    \E k \in 1..Len(StructureShapes) :
        TestPoint(StructureShapes[k], bombShape[x])

\* the pairs of consecutive blast vertices, in the order of the walk, of
\* which one is in the structure and the other is not
Transitions ==
    {x \in 2..Len(bombShape) : InsideStructure(x - 1) # InsideStructure(x)}

\* C22 (crossover detection): when the loop over the blast vertices has
\* ended, the crossovers recorded are one for each pair of consecutive
\* blast vertices whose classifications against the structure differ and
\* none for any other pair, whether the structure is one fixture or
\* several.
C22_CrossoverDetection ==
    pc # "walk" => walk.crossoverCount = Cardinality(Transitions)

\* the vertices of the structure fixtures
StructureVertices ==
    UNION {{StructureShapes[k][x] : x \in 1..Len(StructureShapes[k])} :
              k \in 1..Len(StructureShapes)}

\* the points of a chain
Points(chain) == {chain[x] : x \in 1..Len(chain)}

\* C24 (chain composition): in the remaining chain that the merge has
\* built there is no structure vertex that lies strictly inside the blast,
\* there is every structure vertex that lies outside the blast, and every
\* blast vertex in it is inside the structure.
C24_ChainComposition ==
    pc = "replace" =>
        /\ \A sv \in StructureVertices :
               /\ StrictlyInside(bombShape, sv)
                      => sv \notin Points(walk.newStructure)
               /\ ~TestPoint(bombShape, sv)
                      => sv \in Points(walk.newStructure)
        /\ \A x \in 1..Len(bombShape) :
               (bombShape[x] \in Points(walk.newStructure)
                    /\ bombShape[x] \notin StructureVertices)
                   => InsideStructure(x)

\* the crossover point the walk computes between the blast vertices x - 1
\* and x against the one fixture of the structure (lines 144 and 155: the
\* ray runs from the outside vertex to the inside one)
CrossoverPoint(x) ==
    IF InsideFixture(x)
    THEN getCrossoverVertex(StructureShapes[1], bombShape[x - 1],
                            bombShape[x]).hitPoint
    ELSE getCrossoverVertex(StructureShapes[1], bombShape[x],
                            bombShape[x - 1]).hitPoint

\* C25 (stitching at crossovers): when the walk against a structure of one
\* fixture has been merged and no getCrossoverVertex has thrown, every
\* crossover point of the walk is in the remaining chain and in the debris
\* chain.
C25_CrossoversInBothChains ==
    (pc = "replace" /\ Len(StructureShapes) = 1 /\ ~walk.thrown) =>
        \A x \in Transitions :
            /\ CrossoverPoint(x) \in Points(walk.newStructure)
            /\ CrossoverPoint(x) \in Points(walk.brokenStructure)

\* C30 (closed-walk parity): when the walk over a blast polygon has ended
\* on a structure of a single convex fixture, without an exception, the
\* number of crossovers it recorded is even.
C30_ClosedWalkParity ==
    (pc = "replace" /\ Len(StructureShapes) = 1 /\ ~walk.thrown) =>
        walk.crossoverCount % 2 = 0

\* ------------------------------------------------------------------------
\* generateBlastShape (Prototype and Bomb: the same code)
\* ------------------------------------------------------------------------

\* (cos theta, sin theta) for theta = 0, delta, 2 delta, ... with
\* delta = 2 pi / segments.  For 4 segments the values are exact.
Directions4 == <<P(1, 0), P(0, 1), P(-1, 0), P(0, -1)>>

\* For 3 segments sin(2 pi / 3) is 0.866 to three places.
Directions3 ==
    <<P(1, 0), <<Q(-1, 2), Q(433, 500)>>, <<Q(-1, 2), Q(-433, 500)>> >>

\* The C library's random stream.  srand(time(NULL)) sets its state from the
\* clock; each rand() moves the state on by a fixed rule and returns a value
\* in 0..RAND_MAX computed from it.  The model follows a stream of period
\* RandPeriod, a full cycle of states.
RandPeriod == 16

RAND_MAX == 2

RandStates == 0..(RandPeriod - 1)

\* the state after n calls of rand() from state h
RandAfter(h, n) == (h + 5 * n) % RandPeriod

\* the value the n-th call of rand() from state h returns
rand(h, n) == ((RandAfter(h, n) * 7) \div 3) % (RAND_MAX + 1)

\* #define CCRANDOM_MINUS1_1(): (2.0f * ((float)rand() / RAND_MAX)) - 1.0f
CCRANDOM_MINUS1_1(h, n) == QSub(QMul(I(2), Q(rand(h, n), RAND_MAX)), I(1))

\* the values CCRANDOM_MINUS1_1() can return
Noise == {CCRANDOM_MINUS1_1(h, 1) : h \in RandStates}

\* the values the calls of one generateBlastShape return, from state h
Drawn(h, segments) == [i \in 1..segments |-> CCRANDOM_MINUS1_1(h, i)]

\* the vector built by the loop (lines 251-257 of part_013, 35-41 of
\* Bomb.cpp): directions[i] is (cos theta, sin theta) of iteration i, and
\* rnd[i] the value CCRANDOM_MINUS1_1() returns in it
generateBlastShape(r, directions, roughness, rnd) ==
    LET radius_threshold == QMul(r, roughness)
        vertex(ri, dir) == <<QMul(ri, dir[1]), QMul(ri, dir[2])>>
    IN  [i \in 1..Len(directions) |->
            vertex(QAdd(r, QMul(rnd[i], radius_threshold)), directions[i])]

\* ------------------------------------------------------------------------
\* SpecRetry: Prototype::testPlaceBomb, lines 77-101, the loop that draws
\* blast shapes until one validates and separates
\* ------------------------------------------------------------------------

\* the radii testPlaceBomb is called with: 1.5 and 1.75 by the touch
\* handlers, and 0.25
Radii == {Q(1, 4), Q(3, 2), Q(7, 4)}

\* generateBlastShape(radius, 20, 0.5f): the roughness
Roughness == Q(1, 2)

\* the most calls of generateBlastShape that attempts counts
MaxAttempts == 3

\* localPoint: a touch on the structure and one off it
TouchPoints == {P(4, 2), P(8, 8)}

\* One turn of lines 78-80 for every radius and every state of the random
\* stream: the shape generateBlastShape builds, what Validate returns for
\* it, and the state the stream is left in.
DrawnTurns ==
    LET turn(r, h, shape) ==
            [radius |-> r, holdrand |-> h,
             shape |-> SubSeq(shape, 1, Len(shape)),
             ret |-> Validate(shape),
             next |-> RandAfter(h, Len(Directions4))]
    IN  {turn(r, h, generateBlastShape(r, Directions4, Roughness,
                                       Drawn(h, Len(Directions4)))) :
            r \in Radii, h \in RandStates}

\* the vector moved by localPoint (lines 88-91)
Translate(vec, by) ==
    [x \in 1..Len(vec) |-> <<QAdd(vec[x][1], by[1]), QAdd(vec[x][2], by[2])>>]

\* Lines 82-100 for every validated shape and every touch point: the moved
\* vector, the figures Separate computes from it, and the vector as Separate
\* leaves it (its last figure).
Placements ==
    LET separated(shape, at, moved, figures) ==
            [shape |-> shape, at |-> at,
             moved |-> SubSeq(moved, 1, Len(moved)),
             err |-> figures.err, ended |-> figures.ended,
             figures |-> [x \in 1..Len(figures.figsVec) |->
                             ScaleDown(figures.figsVec[x], PTM_RATIO)]]
        place(shape, at, moved) ==
            separated(shape, at, moved,
                      calcLoop(<<ScaleUp(moved, PTM_RATIO)>>, <<>>, MaxShapeSteps))
    IN  {place(pl[1].shape, pl[2], Translate(pl[1].shape, pl[2])) :
            pl \in {turn \in DrawnTurns : turn.ret = 0} \X TouchPoints}

InitRetry ==
    /\ radius \in Radii
    /\ localPoint \in TouchPoints
    /\ \E structure \in StructureFixtures :
           /\ origFixtures = structure
           /\ bodies = [b \in {"body"} |-> structure]
    /\ sprites = SpriteOfBody
    /\ attempts = 0
    /\ holdrand \in RandStates
    /\ pc = "generate"
    /\ bombShape = <<>>
    /\ it = 0
    /\ walk = WalkStart
    /\ ValidateIdle
    /\ SeparateIdle
    /\ BombIdle

\* lines 78-80: one turn of the inner loop, generateBlastShape and Validate
GenerateBlast ==
    /\ pc = "generate"
    /\ \E turn \in DrawnTurns :
           /\ turn.radius = radius
           /\ turn.holdrand = holdrand
           /\ holdrand' = turn.next
           /\ bombShape' = turn.shape
           /\ vPoly' = turn.shape
           /\ vRet' = turn.ret
           /\ pc' = IF turn.ret # 0 THEN "generate" ELSE "place"
    /\ attempts' = IF attempts < MaxAttempts THEN attempts + 1 ELSE attempts
    /\ UNCHANGED <<sprites, sepVars, bodies, origFixtures, it, walk, radius,
                   localPoint, bombVars>>

\* lines 82-100: the shape is moved to localPoint and separated into sensor
\* fixtures on the body; Separate leaves its last figure in bombShape.  An
\* exception of Separate sends the outer loop round again.
PlaceBlast ==
    /\ pc = "place"
    /\ \E placed \in Placements :
           /\ placed.shape = bombShape
           /\ placed.at = localPoint
           /\ placed.ended
           /\ IF placed.err
              THEN /\ pc' = "generate"
                   /\ bombShape' = placed.moved
                   /\ UNCHANGED bodies
              ELSE /\ pc' = "walk"
                   /\ bombShape' = placed.figures[Len(placed.figures)]
                   /\ \E undefined \in BOOLEAN :
                          bodies' = [bodies EXCEPT !["body"] =
                              CreateFixtures(@,
                                  [x \in 1..Len(placed.figures) |->
                                      IF undefined THEN UndefinedShape
                                      ELSE placed.figures[x]],
                                  1, TRUE)]
    /\ UNCHANGED <<sprites, valVars, sepVars, origFixtures, it, walk, genVars,
                   bombVars>>

NextRetry == GenerateBlast \/ PlaceBlast

SpecRetry == InitRetry /\ [][NextRetry]_vars

\* the loop is running code: it takes its next turn
SpecRetryFair == SpecRetry /\ WF_vars(NextRetry)

\* C9 (bounded retry): the regenerate-until-valid loop ends on every
\* execution: after a bounded number of attempts the generator has either
\* produced its shape or given up, and testPlaceBomb goes on.
C9_RetryTerminates == <>(pc # "generate" /\ pc # "place")

\* C11 (generator determinism): a call of generateBlastShape with the
\* radius, segments and roughness of the call before it, in one run of the
\* program (the stream was seeded once), returns the vertex sequence the
\* call before it returned.
C11_GeneratorDeterministic ==
    [][(pc = "generate" /\ attempts > 0 /\ vPoly = bombShape
            /\ radius' = radius)
        => bombShape' = bombShape]_vars

\* ------------------------------------------------------------------------
\* SpecBomb: the construction of a SimpleBomb, which generates and stores
\* its blast shape, and Bomb::setRadius
\* ------------------------------------------------------------------------

\* the radii a SimpleBomb is built with
BombRadii == {Q(1, 2), I(1), Q(3, 2), I(2), I(10), I(60)}

\* the arguments setRadius is called with
SetRadiusArgs == {-1, 0, 1, 7, 50, 51}

m_maxRadius == 50

\* SimpleBomb::generateBlastShape: int segments = 3; float roughness = 1
SimpleBombRoughness == I(1)

InitBomb ==
    /\ BombIdle
    /\ ValidateIdle
    /\ SeparateIdle
    /\ bodies = NoBodies
    /\ sprites = NoSprites
    /\ BlastIdle
    /\ radius = I(0)
    /\ localPoint = NULL
    /\ attempts = 0
    /\ holdrand \in RandStates

\* SimpleBomb::SimpleBomb(float radius): m_radius = radius converts the
\* float to int; Bomb::generateBlastShape builds vec, stores a copy as the
\* forward hull, reverses vec and stores it as the reverse hull.
SimpleBomb ==
    /\ m_pForwardHull = NULL
    /\ \E r \in BombRadii :
           LET stored(vec) ==
                   /\ m_pForwardHull' = vec
                   /\ m_pReverseHull' = Reverse(vec)
           IN  /\ m_radius' = Trunc(r)
               /\ stored(generateBlastShape(r, Directions3,
                              SimpleBombRoughness,
                              Drawn(holdrand, Len(Directions3))))
    /\ holdrand' = RandAfter(holdrand, Len(Directions3))
    /\ UNCHANGED <<sprites, valVars, sepVars, bodies, blastVars, radius, localPoint,
                   attempts>>

\* Bomb::setRadius(int radius)
setRadius ==
    /\ m_pForwardHull # NULL
    /\ \E r \in SetRadiusArgs :
           m_radius' = IF r > m_maxRadius THEN m_maxRadius
                       ELSE IF r < 1 THEN 0
                       ELSE r
    /\ UNCHANGED <<sprites, valVars, sepVars, bodies, blastVars, genVars,
                   m_pForwardHull, m_pReverseHull>>

NextBomb == SimpleBomb \/ setRadius

SpecBomb == InitBomb /\ [][NextBomb]_vars

\* C10 (blast-shape validity): the forward hull that Bomb::generateBlastShape
\* stores, SimpleBomb's three-segment shape included, passes Validate with
\* result 0.
C10_BlastShapeValid ==
    m_pForwardHull # NULL => Validate(m_pForwardHull) = 0

\* C28 (radius invariant): once a bomb is constructed, and whatever setRadius
\* has been called with, 0 <= getRadius() <= getMaxRadius().
C28_RadiusInvariant ==
    m_pForwardHull # NULL => (0 <= m_radius /\ m_radius <= m_maxRadius)

=============================================================================
